---- MODULE Spec2Model ----
(***************************************************************************)
(* CardioRetina (src/app/app.py): the cached asset loader                  *)
(* load_model_assets and the per-run body of main (upload, preprocessing,  *)
(* inference, risk classification), run by several script threads that     *)
(* share one process-wide resource cache.                                  *)
(***************************************************************************)
EXTENDS Integers, Sequences, FiniteSets, TLC

\* Number of script threads (sessions) of the process.
NumThreads == 2
\* Number of times the script is run again in the process, all threads together.
MaxReruns == 2

Threads == 1..NumThreads
NoThread == 0

----------------------------------------------------------------------------
\* Values

\* IMAGE_RES = (224, 224)
IMAGE_RES == <<224, 224>>

\* Python's None in the model slot / a model object produced by a load.
NoModel == [id |-> 0, outLen |-> 0, via |-> "none"]

\* (None, None), the pair the except handler returns.
FailurePair == [model |-> NoModel, meta |-> "None"]
\* No value yet returned to / pending in a thread.
NoPair == [model |-> NoModel, meta |-> "unset"]

EmptyCache == [filled |-> FALSE, value |-> NoPair]

\* Contents of models/model_meta.json.
MetaFiles == {"missing", "invalid_json", "null", "object"}

\* Contents of models/CardioRetina_Model.keras: a full model (whose output
\* holds outLen values per sample), a bare weights file for the fallback
\* architecture, or something neither loader accepts.
ModelFiles ==
    {[kind |-> "full", outLen |-> n] : n \in {0, 1, 2}}
    \cup {[kind |-> "weights", outLen |-> 1], [kind |-> "corrupt", outLen |-> 0]}

\* What the file uploader hands to main: nothing, bytes PIL cannot decode,
\* or an image of some size (width, height), mode and range of intensities.
NoFile == [kind |-> "none", size |-> <<0, 0>>, mode |-> "", lo |-> 0, hi |-> 0]
CorruptFile == [kind |-> "corrupt", size |-> <<0, 0>>, mode |-> "", lo |-> 0, hi |-> 0]
ImageFiles ==
    { [kind |-> "image", size |-> <<224, 224>>, mode |-> "RGB", lo |-> 128, hi |-> 128],
      [kind |-> "image", size |-> <<640, 480>>, mode |-> "L", lo |-> 0, hi |-> 255],
      [kind |-> "image", size |-> <<1, 1>>, mode |-> "RGBA", lo |-> 7, hi |-> 7],
      [kind |-> "image", size |-> <<300, 200>>, mode |-> "I", lo |-> 0, hi |-> 65535] }
Files == {NoFile, CorruptFile} \cup ImageFiles

\* An array: its shape and the range lo/den .. hi/den of its elements.
NoTensor == [shape |-> <<>>, lo |-> 0, hi |-> 0, den |-> 1]

\* Probabilities are exact fractions <<numerator, denominator>>.
NoProb == <<0, 0>>
Probs == { <<0, 1>>, <<1, 2>>, <<5000001, 10000000>>, <<1, 1>> }

\* The flattened outputs a model with n output values can produce.
Outputs(n) ==
    IF n = 0 THEN {<<>>}
    ELSE IF n = 1 THEN {<<p>> : p \in Probs}
    ELSE {[i \in 1..n |-> IF i = 1 THEN p ELSE <<1, 2>>] : p \in {<<1, 10>>, <<9, 10>>}}

NoReq ==
    [outcome |-> "none", file |-> NoFile, model |-> NoModel, tensor |-> NoTensor,
     output |-> <<>>, prediction |-> NoProb, is_high |-> FALSE, label |-> "",
     status_class |-> "", advisory |-> ""]

NoLoad == [meta |-> "unset", read |-> "none", direct |-> "none", fallback |-> "none",
           model |-> NoModel, value |-> NoPair]

VARIABLES
    metaFile,     \* what is at META_PATH
    modelFile,    \* what is at MODEL_PATH
    cache,        \* the st.cache_resource entry of load_model_assets
    lock,         \* holder of the cache's compute lock, or NoThread
    pc,           \* pc[t]: where thread t is in main / load_model_assets
    reruns,       \* script runs started after a first one, all threads together
    ld,           \* ld[t]: locals of thread t's execution of the load body
    ret,          \* ret[t]: what load_model_assets returned to thread t
    loadCount,    \* executions of the body of load_model_assets so far
    nextId,       \* identity of the next model object constructed
    returned,     \* every pair load_model_assets has returned so far
    req,          \* the last completed run of the rest of main
    decodeFailed  \* some request has failed decoding its image

vars == <<metaFile, modelFile, cache, lock, pc, reruns, ld, ret, loadCount, nextId,
          returned, req, decodeFailed>>

----------------------------------------------------------------------------
\* The resource cache wrapped around load_model_assets (@st.cache_resource)

\* Mutant: the lookup never finds the stored entry.
CacheNeverHit(c) == FALSE

\* A lookup hits when a result has been stored for the (argument-less) call.
CacheHit(c) == c.filled

\* Mutant: a (None, None) result is not stored.
write_result_unless_failed(c, value) ==
    IF value.model = NoModel THEN c ELSE [filled |-> TRUE, value |-> value]

\* Whatever the function returned is stored, (None, None) included.
write_result(c, value) == [filled |-> TRUE, value |-> value]

\* Mutant: the compute lock is not honoured.
LockAlwaysAvailable(l) == TRUE

\* The compute lock can be taken when nobody holds it.
LockAvailable(l) == l = NoThread

----------------------------------------------------------------------------
\* The body of load_model_assets

\* json.load(open(META_PATH)): raises on a missing file or invalid JSON,
\* otherwise returns the parsed value (None for the JSON text null).
json_load(mf) ==
    IF mf \in {"missing", "invalid_json"} THEN "raised"
    ELSE IF mf = "null" THEN "None" ELSE "dict"

\* tf.keras.models.load_model(MODEL_PATH, compile=False)
load_model(f) == IF f.kind = "full" THEN "ok" ELSE "raised"

\* Sequential([MobileNetV2, GlobalAveragePooling2D, Dropout, Dense(1)])
\* followed by load_weights(MODEL_PATH)
load_weights(f) == IF f.kind = "weights" THEN "ok" ELSE "raised"

\* except Exception around load_model: the fallback runs iff it raised.
AfterDirect(outcome) == IF outcome = "ok" THEN "return" ELSE "fallback"

\* Mutant: a failed load_weights is swallowed and the model returned.
AfterFallbackSwallow(outcome) == "return"

\* A raise in the fallback reaches the outer except handler.
AfterFallback(outcome) == IF outcome = "ok" THEN "return" ELSE "except"

\* The script starts (for the first time, or again after an upload or a
\* button press) and main calls load_model_assets(): the cache is read
\* without the lock.
StartRun(t) ==
    /\ pc[t] \in {"idle", "done"}
    /\ IF pc[t] = "done"
       THEN reruns < MaxReruns /\ reruns' = reruns + 1
       ELSE UNCHANGED reruns
    /\ IF CacheHit(cache)
       THEN /\ ret' = [ret EXCEPT ![t] = cache.value]
            /\ returned' = returned \cup {cache.value}
            /\ pc' = [pc EXCEPT ![t] = "loaded"]
       ELSE /\ ret' = [ret EXCEPT ![t] = NoPair]
            /\ pc' = [pc EXCEPT ![t] = "miss"]
            /\ UNCHANGED returned
    /\ ld' = [ld EXCEPT ![t] = NoLoad]
    /\ UNCHANGED <<metaFile, modelFile, cache, lock, loadCount, nextId,
                   req, decodeFailed>>

\* On a miss the caller takes the compute lock.
AcquireLock(t) ==
    /\ pc[t] = "miss"
    /\ LockAvailable(lock)
    /\ lock' = t
    /\ pc' = [pc EXCEPT ![t] = "recheck"]
    /\ UNCHANGED <<metaFile, modelFile, cache, reruns, ld, ret, loadCount, nextId,
                   returned, req, decodeFailed>>

\* Under the lock the cache is read again; on a second miss the body of
\* load_model_assets starts.
Recheck(t) ==
    /\ pc[t] = "recheck"
    /\ IF CacheHit(cache)
       THEN /\ ret' = [ret EXCEPT ![t] = cache.value]
            /\ returned' = returned \cup {cache.value}
            /\ lock' = NoThread
            /\ pc' = [pc EXCEPT ![t] = "loaded"]
            /\ UNCHANGED <<ld, loadCount>>
       ELSE /\ loadCount' = loadCount + 1
            /\ ld' = [ld EXCEPT ![t] = NoLoad]
            /\ pc' = [pc EXCEPT ![t] = "open_meta"]
            /\ UNCHANGED <<ret, returned, lock>>
    /\ UNCHANGED <<metaFile, modelFile, cache, reruns, nextId, req, decodeFailed>>

\* with open(META_PATH) as f: meta = json.load(f)
ReadMeta(t) ==
    /\ pc[t] = "open_meta"
    /\ LET m == json_load(metaFile) IN
       IF m = "raised"
       THEN /\ ld' = [ld EXCEPT ![t].read = "raised"]
            /\ pc' = [pc EXCEPT ![t] = "except"]
       ELSE /\ ld' = [ld EXCEPT ![t].read = "ok", ![t].meta = m]
            /\ pc' = [pc EXCEPT ![t] = "direct"]
    /\ UNCHANGED <<metaFile, modelFile, cache, lock, reruns, ret, loadCount, nextId,
                   returned, req, decodeFailed>>

\* model = tf.keras.models.load_model(MODEL_PATH, compile=False)
DirectLoad(t) ==
    /\ pc[t] = "direct"
    /\ LET o == load_model(modelFile)
           m == [id |-> nextId, outLen |-> modelFile.outLen, via |-> "direct"]
       IN /\ pc' = [pc EXCEPT ![t] = AfterDirect(o)]
          /\ IF o = "ok"
             THEN /\ ld' = [ld EXCEPT ![t].direct = o, ![t].model = m,
                                      ![t].value = [model |-> m, meta |-> ld[t].meta]]
                  /\ nextId' = nextId + 1
             ELSE /\ ld' = [ld EXCEPT ![t].direct = o]
                  /\ UNCHANGED nextId
    /\ UNCHANGED <<metaFile, modelFile, cache, lock, reruns, ret, loadCount,
                   returned, req, decodeFailed>>

\* except Exception: rebuild the fixed architecture, model.load_weights(MODEL_PATH)
Fallback(t) ==
    /\ pc[t] = "fallback"
    /\ LET o == load_weights(modelFile)
           m == [id |-> nextId, outLen |-> 1, via |-> "fallback"]
       IN /\ pc' = [pc EXCEPT ![t] = AfterFallback(o)]
          /\ nextId' = nextId + 1
          /\ IF pc'[t] = "return"
             THEN ld' = [ld EXCEPT ![t].fallback = o, ![t].model = m,
                                   ![t].value = [model |-> m, meta |-> ld[t].meta]]
             ELSE ld' = [ld EXCEPT ![t].fallback = o]
    /\ UNCHANGED <<metaFile, modelFile, cache, lock, reruns, ret, loadCount,
                   returned, req, decodeFailed>>

\* except Exception as e: st.error(...); return None, None
ExceptHandler(t) ==
    /\ pc[t] = "except"
    /\ ld' = [ld EXCEPT ![t].value = FailurePair]
    /\ pc' = [pc EXCEPT ![t] = "return"]
    /\ UNCHANGED <<metaFile, modelFile, cache, lock, reruns, ret, loadCount, nextId,
                   returned, req, decodeFailed>>

\* The body returned: the value is stored, the lock released and the value
\* handed to the caller.
WriteCache(t) ==
    /\ pc[t] = "return"
    /\ cache' = write_result(cache, ld[t].value)
    /\ lock' = IF lock = t THEN NoThread ELSE lock
    /\ ret' = [ret EXCEPT ![t] = ld[t].value]
    /\ returned' = returned \cup {ld[t].value}
    /\ pc' = [pc EXCEPT ![t] = "loaded"]
    /\ UNCHANGED <<metaFile, modelFile, reruns, ld, loadCount, nextId, req,
                   decodeFailed>>

----------------------------------------------------------------------------
\* The rest of main: upload, preprocessing, inference, classification

\* Mutant: the guard tests the upload only.
ShouldClassifyFileOnly(file, model) == file.kind # "none"

\* if file and model:
ShouldClassify(file, model) == file.kind # "none" /\ model # NoModel

\* Image.open(file), for a file PIL can decode.
Open(file) == [size |-> file.size, mode |-> file.mode, lo |-> file.lo, hi |-> file.hi]

\* Number of bands of a PIL mode.
Bands(mode) == IF mode = "RGB" THEN 3 ELSE IF mode = "RGBA" THEN 4 ELSE 1

Min(a, b) == IF a < b THEN a ELSE b

\* Mutant: the image keeps its mode.
ConvertNothing(img, mode) == img

\* img.convert("RGB"): three 8-bit bands; 32-bit intensities are clipped to
\* 0..255 and palette indices replaced by palette colours.
Convert(img, mode) ==
    IF img.mode = "P" THEN [img EXCEPT !.mode = mode, !.lo = 0, !.hi = 255]
    ELSE [img EXCEPT !.mode = mode, !.lo = Min(img.lo, 255), !.hi = Min(img.hi, 255)]

\* img.resize(size): the target size whatever the source size; resampling a
\* constant image keeps its value, otherwise 8-bit results are clipped to 0..255.
Resize(img, size) ==
    IF img.lo = img.hi \/ img.mode = "I" THEN [img EXCEPT !.size = size]
    ELSE [img EXCEPT !.size = size, !.lo = 0, !.hi = 255]

\* np.array(img): shape (height, width, bands), no band axis for one band.
ToArray(img) ==
    [shape |-> IF Bands(img.mode) = 1 THEN <<img.size[2], img.size[1]>>
               ELSE <<img.size[2], img.size[1], Bands(img.mode)>>,
     lo |-> img.lo, hi |-> img.hi, den |-> 1]

\* arr / 255.0
Divide(arr, d) == [arr EXCEPT !.den = arr.den * d]

\* np.expand_dims(arr, axis=0)
ExpandDims(arr) == [arr EXCEPT !.shape = <<1>> \o arr.shape]

\* processed_img = np.expand_dims(np.array(img.resize(IMAGE_RES)) / 255.0, axis=0)
Preprocess(img) == ExpandDims(Divide(ToArray(Resize(img, IMAGE_RES)), 255))

\* Mutant: the threshold itself counts as high.
IsHighInclusive(p) == 2 * p[1] >= p[2]

\* is_high = prediction > 0.5
IsHigh(p) == 2 * p[1] > p[2]

Label(is_high) == IF is_high THEN "high risk" ELSE "low risk"
StatusClass(is_high) == IF is_high THEN "risk-high-text" ELSE "risk-low-text"
Advisory(is_high) == IF is_high THEN "warning" ELSE "success"

\* One run of main after load_model_assets returned model, with the upload
\* file and out the flattened output predict produces: the record of what
\* the run did.
RunMain(file, model, out) ==
    LET base == [NoReq EXCEPT !.file = file, !.model = model] IN
    IF ~ShouldClassify(file, model) THEN [base EXCEPT !.outcome = "skipped"]
    ELSE IF file.kind = "corrupt" THEN [base EXCEPT !.outcome = "decode_error"]
    ELSE
      LET img == Convert(Open(file), "RGB")
          processed_img == Preprocess(img)
          withTensor == [base EXCEPT !.tensor = processed_img]
      IN IF model = NoModel THEN [withTensor EXCEPT !.outcome = "attribute_error"]
         ELSE IF Len(out) = 0
         THEN [withTensor EXCEPT !.outcome = "index_error", !.output = out]
         ELSE LET prediction == out[1]
                  is_high == IsHigh(prediction)
              IN [withTensor EXCEPT !.outcome = "result", !.output = out,
                                    !.prediction = prediction, !.is_high = is_high,
                                    !.label = Label(is_high),
                                    !.status_class = StatusClass(is_high),
                                    !.advisory = Advisory(is_high)]

\* Everything the rest of main changes.
MainBody(t) ==
    /\ pc[t] = "loaded"
    /\ \E file \in Files, out \in Outputs(ret[t].model.outLen) :
          req' = RunMain(file, ret[t].model, out)
    /\ decodeFailed' = (decodeFailed \/ req'.outcome = "decode_error")
    /\ pc' = [pc EXCEPT ![t] = "done"]
    /\ UNCHANGED <<metaFile, modelFile, lock, reruns, ld, ret, loadCount, nextId,
                   returned>>

\* Mutant: a request that fails to decode its image clears the resource cache.
RequestInvalidating(t) ==
    /\ MainBody(t)
    /\ cache' = IF req'.outcome = "decode_error" THEN EmptyCache ELSE cache

\* main from the file uploader to its end: the cache is not touched.
Request(t) ==
    /\ MainBody(t)
    /\ UNCHANGED cache

----------------------------------------------------------------------------
Init ==
    /\ metaFile \in MetaFiles
    /\ modelFile \in ModelFiles
    /\ cache = EmptyCache
    /\ lock = NoThread
    /\ pc = [t \in Threads |-> "idle"]
    /\ reruns = 0
    /\ ld = [t \in Threads |-> NoLoad]
    /\ ret = [t \in Threads |-> NoPair]
    /\ loadCount = 0
    /\ nextId = 1
    /\ returned = {}
    /\ req = NoReq
    /\ decodeFailed = FALSE

Next ==
    \E t \in Threads :
        \/ StartRun(t)
        \/ AcquireLock(t)
        \/ Recheck(t)
        \/ ReadMeta(t)
        \/ DirectLoad(t)
        \/ Fallback(t)
        \/ ExceptHandler(t)
        \/ WriteCache(t)
        \/ Request(t)

Spec == Init /\ [][Next]_vars

----------------------------------------------------------------------------
\* Properties

\* Thread t is executing the body of load_model_assets.
InLoad(t) == pc[t] \in {"open_meta", "direct", "fallback", "except", "return"}

\* C1: every call of load_model_assets made so far returned one and the same
\* pair (the same model object, by identity), and the body of the function
\* has executed at most once.
C1_SameInstanceLoadedOnce ==
    /\ Cardinality(returned) <= 1
    /\ loadCount <= 1
    /\ \A t \in Threads : ret[t] # NoPair => (cache.filled /\ ret[t] = cache.value)

\* The only thread that has run the script ran it again, and its second call
\* got the model of the one load from the cache.
C1_Witness ==
    \E t \in Threads :
        /\ \A u \in Threads \ {t} : pc[u] = "idle"
        /\ reruns >= 1
        /\ pc[t] = "loaded"
        /\ ld[t] = NoLoad
        /\ ret[t].model # NoModel
        /\ loadCount = 1

\* C2: with several first-time callers the load body never executes in two
\* threads at once, a single model object is ever constructed by a load that
\* succeeds at once, and all callers that have returned hold the same result.
C2_AtMostOneConstructionInFlight ==
    /\ \A t1, t2 \in Threads : (InLoad(t1) /\ InLoad(t2)) => t1 = t2
    /\ \A t \in Threads : InLoad(t) => lock = t
    /\ \A t1, t2 \in Threads :
          (ret[t1] # NoPair /\ ret[t2] # NoPair) => ret[t1] = ret[t2]

\* One first-time caller is inside the load body while another, which also
\* missed the cache, waits for it.
C2_Witness ==
    \E t1, t2 \in Threads : t1 # t2 /\ InLoad(t1) /\ pc[t2] = "miss"

\* C3: in every execution of the load body that has passed the two
\* strategies, the fallback was attempted iff the direct load raised; a
\* successful direct load is what is returned; a successful fallback yields
\* the rebuilt single-output model; a failed fallback yields (None, None).
C3_FallbackOrder ==
    \A t \in Threads :
        LET a == ld[t] IN
        /\ pc[t] = "fallback" => (a.direct = "raised" /\ a.fallback = "none")
        /\ (a.read # "none" /\ pc[t] \in {"return", "loaded", "done"}) =>
              /\ (a.fallback # "none") <=> (a.direct = "raised")
              /\ a.direct # "none" <=> a.read = "ok"
              /\ a.direct = "ok" => (a.value.model.via = "direct" /\ a.value.model # NoModel)
              /\ a.fallback = "ok" =>
                    (a.value.model.via = "fallback" /\ a.value.model.outLen = 1)
              /\ a.fallback = "raised" => a.value = FailurePair

\* A load whose direct attempt raised returned the model built by the fallback.
C3_Witness ==
    \E t \in Threads :
        /\ pc[t] = "loaded"
        /\ ld[t].direct = "raised"
        /\ ld[t].fallback = "ok"
        /\ ret[t].model.via = "fallback"

\* C4: every pair load_model_assets has returned holds either a model and
\* metadata or neither.
C4_NoPartialSuccess ==
    \A v \in returned : (v.model = NoModel) <=> (v.meta = "None")

\* C5: once load_model_assets has returned (None, None), the load body is
\* never executed again and every later return is (None, None) too.
C5_FailureCached ==
    [][(FailurePair \in returned) =>
          ( /\ loadCount' = loadCount
            /\ \A t \in Threads : InLoad(t)' => InLoad(t)
            /\ returned' = returned )]_vars

\* The only thread that has run the script ran it again after its load had
\* failed, and its second call got (None, None) without loading.
C5_Witness ==
    \E t \in Threads :
        /\ \A u \in Threads \ {t} : pc[u] = "idle"
        /\ reruns >= 1
        /\ pc[t] = "loaded"
        /\ ld[t] = NoLoad
        /\ ret[t] = FailurePair
        /\ loadCount = 1

\* C6: preprocessing, prediction and classification happen only in a run
\* that has an upload and a model; a run whose load failed produces no
\* tensor, no prediction and no label.
C6_NoClassificationWithoutModel ==
    /\ req.outcome \notin {"none", "skipped"} =>
          (req.file.kind # "none" /\ req.model # NoModel)
    /\ req.model = NoModel =>
          /\ req.tensor = NoTensor
          /\ req.output = <<>>
          /\ req.prediction = NoProb
          /\ req.label = ""

\* An image was uploaded to a process whose load had failed, and the run
\* skipped classification.
C6_Witness ==
    /\ req.file.kind = "image"
    /\ req.model = NoModel
    /\ req.outcome = "skipped"
    /\ FailurePair \in returned

\* C7: a run of the rest of main, failing or not, leaves the cache and the
\* number of loads as they were; and after some request failed to decode its
\* image, a request with a decodable image and a model that yields an output
\* ends with a result computed by the still cached model of the only load.
C7_RequestFailureIsolated ==
    /\ [][(\A t \in Threads :
              (pc[t] = "loaded" /\ pc'[t] = "done") =>
                  (cache' = cache /\ loadCount' = loadCount /\ nextId' = nextId))]_vars
    /\ [](( /\ decodeFailed
            /\ req.file.kind = "image"
            /\ req.model # NoModel
            /\ req.model.outLen >= 1 ) =>
              /\ req.outcome = "result"
              /\ cache.filled
              /\ req.model = cache.value.model
              /\ loadCount = 1)

\* A request produced a result after another had failed to decode.
C7_Witness ==
    /\ decodeFailed
    /\ req.outcome = "result"
    /\ loadCount = 1

\* C8: a result is high risk exactly when its probability exceeds 1/2, so
\* 1/2 itself is low risk; the status class and the advisory tier agree with
\* the label.
C8_StrictThreshold ==
    req.outcome = "result" =>
        LET p == req.prediction IN
        /\ p[1] >= 0 /\ p[1] <= p[2]
        /\ req.label \in {"high risk", "low risk"}
        /\ req.label = "high risk" <=> 2 * p[1] > p[2]
        /\ req.is_high <=> req.label = "high risk"
        /\ p = <<1, 2>> => req.label = "low risk"
        /\ req.label = "high risk" =>
              (req.advisory = "warning" /\ req.status_class = "risk-high-text")
        /\ req.label = "low risk" =>
              (req.advisory = "success" /\ req.status_class = "risk-low-text")

\* A probability of exactly 1/2 was classified low risk.
C8_Witness ==
    /\ req.outcome = "result"
    /\ req.prediction = <<1, 2>>
    /\ req.label = "low risk"

\* C9: whenever the flattened output of the model does not hold exactly one
\* value, the run ends in an error and no probability is produced.
C9_ExactlyOneScalar ==
    (req.tensor # NoTensor /\ req.model # NoModel /\ req.model.outLen # 1) =>
        (req.outcome # "result" /\ req.prediction = NoProb)

\* C10: whatever the size and mode of the decoded image, the tensor that
\* preprocessing produces, the only one predict is ever given, has shape
\* (1, 224, 224, 3) and elements of the form n/255 with 0 <= n <= 255.
C10_TensorShapeAndRange ==
    /\ req.tensor # NoTensor =>
          /\ req.tensor.shape = <<1, 224, 224, 3>>
          /\ req.tensor.den = 255
          /\ 0 <= req.tensor.lo
          /\ req.tensor.lo <= req.tensor.hi
          /\ req.tensor.hi <= req.tensor.den
    /\ req.outcome \in {"result", "index_error"} =>
          req.tensor.shape = <<1>> \o <<IMAGE_RES[2], IMAGE_RES[1], 3>>

\* A 640x480 one-band image reached the model as a (1, 224, 224, 3) tensor.
C10_Witness ==
    /\ req.file.mode = "L"
    /\ req.file.size = <<640, 480>>
    /\ req.outcome = "result"
    /\ req.tensor.shape = <<1, 224, 224, 3>>

====
